---- MODULE Spec2Model ----
(***************************************************************************)
(* Polyfetch: the statistics pipeline of subgraph.go.                      *)
(*                                                                         *)
(* One stats request is modelled: ComputeMarketStats is called with a      *)
(* Market, GetMarketPositions pages through the ledger (one action per     *)
(* loop iteration, the upstream's reply being the input of the step), and  *)
(* the statistics are derived from the positions or, as the fallback,      *)
(* from the Market's prices.                                               *)
(*                                                                         *)
(* Representation.                                                         *)
(*  - A Go string that the code only copies or compares (identifiers,      *)
(*    outcome names, outcome labels, user ids) is a TLA+ string.           *)
(*  - A price string, which the code parses, is a sequence of one-char     *)
(*    strings, so that Sscanf is computed character by character.          *)
(*  - A float64 is an exact rational [n, d] in lowest terms with d > 0     *)
(*    (rounding of the binary format is not modelled; NaN and the          *)
(*    infinities cannot arise from the price alphabet used here).          *)
(*  - A []PositionData is [n, recs]: its length and the set of distinct    *)
(*    (Outcome, User.ID) pairs occurring in it.  The code reads nothing    *)
(*    else of a position list: len() of a page, and the two fields of      *)
(*    each element, which it only inserts into sets.                       *)
(***************************************************************************)
EXTENDS Integers, Sequences, FiniteSets, TLC

VARIABLES
    pc,            \* position of the request: "idle", "paging", "fetched", "done"
    market,        \* the *Market passed to ComputeMarketStats
    skip,          \* GetMarketPositions: skip
    allPositions,  \* GetMarketPositions: allPositions
    requests,      \* log of the page requests issued: <<[skip, first, reply]>>
    fetchRet,      \* what GetMarketPositions returned: [positions, err]
    stats,         \* the *MarketStats returned by ComputeMarketStats
    statsErr,      \* the error returned by ComputeMarketStats
    mode,          \* which return statement produced stats: "ledger" or "price"
    ledgerReply,   \* the latest reply of the ledger: [kind, errors, dataOK, n]
    request,       \* the HTTP request a handler of main.go is serving
    catalog,       \* the HTTP exchange with the catalog made for the request
    now,           \* time.Now() as read by FetchMarkets and SearchMarkets
    call,          \* the arguments the handler passed to the GammaClient
    response,      \* the APIResponse the handler encoded
    procs          \* the locals of the requests that are served concurrently

\* the variables of the statistics pipeline, of the handlers, and all of them
engine == <<pc, market, skip, allPositions, requests, fetchRet, stats, statsErr,
            mode, ledgerReply>>
facade == <<request, catalog, now, call, response>>
vars   == <<engine, facade, procs>>

(***************************************************************************)
(* Bounds of the model.                                                    *)
(***************************************************************************)
MaxPrices    == 3   \* longest outcomePrices sequence of a Market
MaxPageRecs  == 2   \* most distinct (outcome, user) pairs in one page
MaxStatRecs  == 3   \* most distinct pairs in a directly given position list
MaxListed    == 2   \* most records in a catalog list, or markets in an event
MaxEvents    == 2   \* most events in a search result
NRequests    == 2   \* requests that are served concurrently

(***************************************************************************)
(* Program constants.                                                      *)
(***************************************************************************)
limit        == 1000     \* GetMarketPositions: limit
SafetyLimit  == 10000    \* GetMarketPositions: if skip > 10000
DefaultLimit       == 50    \* handleGetMarkets: limit := 50
MaxLimit           == 100   \* handleGetMarkets: parsed <= 100
DefaultSearchLimit == 20    \* handleSearchMarkets: limit := 20
MaxSearchLimit     == 50    \* handleSearchMarkets: parsed <= 50

NoErr == "nil"

(***************************************************************************)
(* float64 as exact rationals.                                             *)
(***************************************************************************)
Abs(x) == IF x < 0 THEN -x ELSE x

RECURSIVE GCD(_, _)
GCD(a, b) == IF b = 0 THEN a ELSE GCD(b, a % b)

Lowest(n, d, g) == [n |-> n \div g, d |-> d \div g]

\* the rational n/d (d > 0) in lowest terms
Rat(n, d) == IF n = 0 THEN [n |-> 0, d |-> 1] ELSE Lowest(n, d, GCD(Abs(n), d))

FloatZero == [n |-> 0, d |-> 1]

\* float64(i)
FloatOfInt(i) == [n |-> i, d |-> 1]

\* a * b
FloatMul(a, b) == Rat(a.n * b.n, a.d * b.d)

\* a / b, for b > 0
FloatDiv(a, b) == Rat(a.n * b.d, a.d * b.n)

\* a > b
FloatGT(a, b) == a.n * b.d > b.n * a.d

(***************************************************************************)
(* fmt.Sscanf(price, "%f", &priceFloat): leading spaces are skipped, the   *)
(* longest prefix of the form [sign] digits [. digits] is the token, and   *)
(* the token is converted; when the conversion fails (no digit in the      *)
(* token) the error is dropped and priceFloat keeps its zero value.        *)
(* Input after the token is ignored.  The scanner is a position in the     *)
(* string, from 1.                                                         *)
(***************************************************************************)
DecimalDigits == {"0", "1", "2", "3", "4", "5", "6", "7", "8", "9"}

DigitValue(c) ==
    CASE c = "0" -> 0 [] c = "1" -> 1 [] c = "2" -> 2 [] c = "3" -> 3
      [] c = "4" -> 4 [] c = "5" -> 5 [] c = "6" -> 6 [] c = "7" -> 7
      [] c = "8" -> 8 [] c = "9" -> 9

\* the position after the spaces that start at i
RECURSIVE SkipSpace(_, _)
SkipSpace(s, i) ==
    IF i <= Len(s) /\ s[i] = " " THEN SkipSpace(s, i + 1) ELSE i

\* the position after the digits that start at i
RECURSIVE AcceptDigits(_, _)
AcceptDigits(s, i) ==
    IF i <= Len(s) /\ s[i] \in DecimalDigits THEN AcceptDigits(s, i + 1) ELSE i

\* the position after one character of set, if it is at i
Accept(s, i, set) == IF i <= Len(s) /\ s[i] \in set THEN i + 1 ELSE i

\* the value of a sequence of digits
RECURSIVE DigitsValue(_, _)
DigitsValue(s, acc) ==
    IF s = <<>> THEN acc ELSE DigitsValue(Tail(s), acc * 10 + DigitValue(Head(s)))

RECURSIVE Pow10(_)
Pow10(k) == IF k = 0 THEN 1 ELSE 10 * Pow10(k - 1)

\* the token is s[a..e-1]: sign in a..b-1, integer digits in b..c-1, the
\* point in c..d-1, fraction digits in d..e-1
ParseFloat(s, a, b, c, d, e) ==
    IF (c - b) + (e - d) = 0
    THEN FloatZero
    ELSE Rat((IF b > a /\ s[a] = "-" THEN -1 ELSE 1)
               * DigitsValue(SubSeq(s, b, c - 1) \o SubSeq(s, d, e - 1), 0),
             Pow10(e - d))

TokenFraction(s, a, b, c, d) ==
    ParseFloat(s, a, b, c, d, IF d > c THEN AcceptDigits(s, d) ELSE d)

TokenPoint(s, a, b, c) == TokenFraction(s, a, b, c, Accept(s, c, {"."}))

TokenDigits(s, a, b) == TokenPoint(s, a, b, AcceptDigits(s, b))

floatToken(s, a) == TokenDigits(s, a, Accept(s, a, {"+", "-"}))

Sscanf(price) == floatToken(price, SkipSpace(price, 1))

(***************************************************************************)
(* fmt.Sprint(i) for an int i >= 0: its decimal digits.                    *)
(***************************************************************************)
DigitChar(v) ==
    CASE v = 0 -> "0" [] v = 1 -> "1" [] v = 2 -> "2" [] v = 3 -> "3"
      [] v = 4 -> "4" [] v = 5 -> "5" [] v = 6 -> "6" [] v = 7 -> "7"
      [] v = 8 -> "8" [] v = 9 -> "9"

RECURSIVE Sprint(_)
Sprint(i) ==
    IF i < 10 THEN DigitChar(i) ELSE Sprint(i \div 10) \o DigitChar(i % 10)

(***************************************************************************)
(* computeStatsFromPrices (subgraph.go): the price-mode statistics.        *)
(***************************************************************************)
NilStats == "nil"

\* price := "0"; if i < len(market.OutcomeTokens) { price = market.OutcomeTokens[i] }
\* (i is the Go index, from 0)
PriceOrZero(m, i) ==
    IF i < Len(m.OutcomeTokens) THEN m.OutcomeTokens[i + 1] ELSE <<"0">>

\* pct := priceFloat * 100
PricePctMut(priceFloat) == priceFloat
PricePct(priceFloat) == FloatMul(priceFloat, FloatOfInt(100))

\* the comparison that replaces the running maximum: if x > max
IsNewMaxMut(x, max) == ~FloatGT(max, x)
IsNewMax(x, max) == FloatGT(x, max)

\* var maxPrice float64; var popularOutcome string (and the empty OutcomeStats)
PriceLoopInit == [OutcomeStats |-> <<>>, maxPrice |-> FloatZero, popularOutcome |-> ""]

\* the body of the loop, from the append on
PriceLoopBody(outcomeName, i, price, priceFloat, loop) ==
    [OutcomeStats   |-> Append(loop.OutcomeStats,
                               [Outcome      |-> outcomeName,
                                OutcomeIndex |-> i,
                                UserCount    |-> 0,
                                Percentage   |-> PricePct(priceFloat),
                                Price        |-> price]),
     maxPrice       |-> IF IsNewMax(priceFloat, loop.maxPrice)
                        THEN priceFloat ELSE loop.maxPrice,
     popularOutcome |-> IF IsNewMax(priceFloat, loop.maxPrice)
                        THEN outcomeName ELSE loop.popularOutcome]

PriceLoopParse(outcomeName, i, price, loop) ==
    PriceLoopBody(outcomeName, i, price, Sscanf(price), loop)

\* for i, outcomeName := range market.Outcomes, from index i on
RECURSIVE PriceLoop(_, _, _)
PriceLoop(m, i, loop) ==
    IF i >= Len(m.Outcomes) THEN loop
    ELSE PriceLoop(m, i + 1,
                   PriceLoopParse(m.Outcomes[i + 1], i, PriceOrZero(m, i), loop))

PriceStatsMut(m, loop) ==
    [MarketID       |-> m.ID,
     Question       |-> m.Question,
     TotalUsers     |-> 0,
     OutcomeStats   |-> loop.OutcomeStats,
     PopularOutcome |-> loop.popularOutcome,
     PopularPct     |-> loop.maxPrice]

PriceStats(m, loop) ==
    [MarketID       |-> m.ID,
     Question       |-> m.Question,
     TotalUsers     |-> 0,
     OutcomeStats   |-> loop.OutcomeStats,
     PopularOutcome |-> loop.popularOutcome,
     PopularPct     |-> FloatMul(loop.maxPrice, FloatOfInt(100))]

computeStatsFromPrices(m) == PriceStats(m, PriceLoop(m, 0, PriceLoopInit))

(***************************************************************************)
(* ComputeMarketStats (subgraph.go), from the return of                    *)
(* GetMarketPositions on.                                                  *)
(***************************************************************************)
EmptyMaps == [outcomeUsers |-> <<>>, totalUniqueUsers |-> {}]

\* if _, ok := outcomeUsers[outcome]; !ok { outcomeUsers[outcome] = make(...) }
InitOutcome(outcomeUsers, outcome) ==
    IF outcome \in DOMAIN outcomeUsers
    THEN outcomeUsers
    ELSE outcomeUsers @@ (outcome :> {})

\* outcomeUsers[outcome][user] = true; totalUniqueUsers[user] = true
GroupPositionMut(pos, maps) ==
    [outcomeUsers     |-> [InitOutcome(maps.outcomeUsers, pos.Outcome)
                              EXCEPT ![pos.Outcome] = @ \cup {pos.User}],
     totalUniqueUsers |-> {pos.User}]

GroupPosition(pos, maps) ==
    [outcomeUsers     |-> [InitOutcome(maps.outcomeUsers, pos.Outcome)
                              EXCEPT ![pos.Outcome] = @ \cup {pos.User}],
     totalUniqueUsers |-> maps.totalUniqueUsers \cup {pos.User}]

GroupNext(recs, pos, maps) ==
    [recs |-> recs \ {pos}, maps |-> GroupPosition(pos, maps)]

\* for _, pos := range positions { ... }: the two maps after the loop
RECURSIVE GroupPositions(_)
GroupPositions(g) ==
    IF g.recs = {} THEN g.maps
    ELSE GroupPositions(GroupNext(g.recs, CHOOSE p \in g.recs : TRUE, g.maps))

\* outcomeKey := fmt.Sprint(i)
OutcomeKeyMut(i, outcomeName) == outcomeName
OutcomeKey(i, outcomeName) == Sprint(i)

\* if totalUsers == 0 { return c.computeStatsFromPrices(market), nil }
NoUsersMut(totalUsers) == FALSE
NoUsers(totalUsers) == totalUsers = 0

\* price := ""; if i < len(market.OutcomeTokens) { price = market.OutcomeTokens[i] }
PriceOrEmpty(m, i) ==
    IF i < Len(m.OutcomeTokens) THEN m.OutcomeTokens[i + 1] ELSE <<>>

\* users, exists := outcomeUsers[outcomeKey]; userCount := 0; if exists { ... }
UserCountOf(outcomeUsers, outcomeKey) ==
    IF outcomeKey \in DOMAIN outcomeUsers
    THEN Cardinality(outcomeUsers[outcomeKey])
    ELSE 0

\* pct := 0.0; if totalUsers > 0 { pct = float64(userCount) / float64(totalUsers) * 100 }
LedgerPct(userCount, totalUsers) ==
    IF totalUsers > 0
    THEN FloatMul(FloatDiv(FloatOfInt(userCount), FloatOfInt(totalUsers)),
                  FloatOfInt(100))
    ELSE FloatZero

\* var maxPct float64; var popularOutcome string (and the empty OutcomeStats)
LedgerLoopInit == [OutcomeStats |-> <<>>, maxPct |-> FloatZero, popularOutcome |-> ""]

\* the body of the loop, from the append on
LedgerLoopBodyMut(outcomeName, i, userCount, pct, price, loop) ==
    [OutcomeStats   |-> <<[Outcome      |-> outcomeName,
                           OutcomeIndex |-> i,
                           UserCount    |-> userCount,
                           Percentage   |-> pct,
                           Price        |-> price]>> \o loop.OutcomeStats,
     maxPct         |-> IF IsNewMax(pct, loop.maxPct) THEN pct ELSE loop.maxPct,
     popularOutcome |-> IF IsNewMax(pct, loop.maxPct)
                        THEN outcomeName ELSE loop.popularOutcome]

LedgerLoopBody(outcomeName, i, userCount, pct, price, loop) ==
    [OutcomeStats   |-> Append(loop.OutcomeStats,
                               [Outcome      |-> outcomeName,
                                OutcomeIndex |-> i,
                                UserCount    |-> userCount,
                                Percentage   |-> pct,
                                Price        |-> price]),
     maxPct         |-> IF IsNewMax(pct, loop.maxPct) THEN pct ELSE loop.maxPct,
     popularOutcome |-> IF IsNewMax(pct, loop.maxPct)
                        THEN outcomeName ELSE loop.popularOutcome]

LedgerLoopCount(outcomeName, i, userCount, totalUsers, price, loop) ==
    LedgerLoopBody(outcomeName, i, userCount, LedgerPct(userCount, totalUsers),
                   price, loop)

\* for i, outcomeName := range market.Outcomes, from index i on
RECURSIVE LedgerLoop(_, _, _, _, _)
LedgerLoop(m, outcomeUsers, totalUsers, i, loop) ==
    IF i >= Len(m.Outcomes) THEN loop
    ELSE LedgerLoop(m, outcomeUsers, totalUsers, i + 1,
             LedgerLoopCount(m.Outcomes[i + 1], i,
                 UserCountOf(outcomeUsers, OutcomeKey(i, m.Outcomes[i + 1])),
                 totalUsers, PriceOrEmpty(m, i), loop))

LedgerStats(m, totalUsers, loop) ==
    [MarketID       |-> m.ID,
     Question       |-> m.Question,
     TotalUsers     |-> totalUsers,
     OutcomeStats   |-> loop.OutcomeStats,
     PopularOutcome |-> loop.popularOutcome,
     PopularPct     |-> loop.maxPct]

\* if err != nil { return c.computeStatsFromPrices(market), nil }
OnFetchErrorMut(m, err) == [stats |-> NilStats, err |-> err, mode |-> "none"]
OnFetchError(m, err) ==
    [stats |-> computeStatsFromPrices(m), err |-> NoErr, mode |-> "price"]

\* totalUsers := len(totalUniqueUsers) and the rest of the function
StatsOfUsers(m, outcomeUsers, totalUsers) ==
    IF NoUsers(totalUsers)
    THEN [stats |-> computeStatsFromPrices(m), err |-> NoErr, mode |-> "price"]
    ELSE [stats |-> LedgerStats(m, totalUsers,
                        LedgerLoop(m, outcomeUsers, totalUsers, 0, LedgerLoopInit)),
          err   |-> NoErr,
          mode  |-> "ledger"]

StatsOfMaps(m, maps) ==
    StatsOfUsers(m, maps.outcomeUsers, Cardinality(maps.totalUniqueUsers))

\* ret is what GetMarketPositions returned; the result is the pair
\* (stats, err) of the call, with the return statement taken as mode
ComputeMarketStats(m, ret) ==
    IF ret.err # NoErr THEN OnFetchError(m, ret.err)
    ELSE StatsOfMaps(m, GroupPositions([recs |-> ret.positions.recs,
                                        maps |-> EmptyMaps]))

(***************************************************************************)
(* Inputs: the Markets handed to ComputeMarketStats and the replies of     *)
(* the ledger service.                                                     *)
(***************************************************************************)
SeqsUpTo(S, k) == UNION {[1..j -> S] : j \in 0..k}

\* Market.ID, Market.ConditionID, Market.Question
Identities ==
    {[ID |-> "m1", ConditionID |-> "0xc1", Question |-> "Will X happen?"],
     [ID |-> "m2", ConditionID |-> "0xc2", Question |-> "Who wins?"]}

\* Market.Outcomes
OutcomeLists ==
    {<<>>, <<"Yes">>, <<"Yes", "No">>, <<"A", "B", "C">>, <<"1", "0">>}

\* the strings of Market.OutcomeTokens: in range, zero, above 1, negative,
\* and one that is no number
PriceStrings ==
    {<<"0", ".", "7">>, <<"0", ".", "3">>, <<"0", ".", "2">>, <<"0">>,
     <<"1", ".", "5">>, <<"-", "0", ".", "5">>, <<"z">>}

MakeMarket(id, outcomes, prices) ==
    [ID            |-> id.ID,
     ConditionID   |-> id.ConditionID,
     Question      |-> id.Question,
     Outcomes      |-> outcomes,
     OutcomeTokens |-> prices]

\* every price sequence up to MaxPrices, for one identity
PriceMarkets ==
    {MakeMarket(id, o, p) :
        id \in {i \in Identities : i.ID = "m1"},
        o  \in OutcomeLists,
        p  \in SeqsUpTo(PriceStrings, MaxPrices)}

\* a few price sequences, for every identity
FewPriceLists ==
    {<<>>,
     <<<<"0", ".", "7">>, <<"0", ".", "3">>>>,
     <<<<"z">>, <<"1", ".", "5">>>>}

LedgerMarkets ==
    {MakeMarket(id, o, p) :
        id \in Identities, o \in OutcomeLists, p \in FewPriceLists}

\* the Markets of the requests that page through the ledger
RequestMarkets ==
    {m \in LedgerMarkets :
        /\ m.Outcomes \in {<<"Yes", "No">>, <<"1", "0">>}
        /\ Len(m.OutcomeTokens) \in {0, 2}
        /\ (m.OutcomeTokens # <<>> => m.OutcomeTokens[1] # <<"z">>)}

\* PositionData.Outcome and PositionData.User.ID
Labels == {"0", "1", "Yes"}
Users  == {"u1", "u2"}
Records == [Outcome : Labels, User : Users]

NilPositions == [n |-> 0, recs |-> {}]

\* append(allPositions, result.Positions...)
AppendPositions(all, page) ==
    [n |-> all.n + page.n, recs |-> all.recs \cup page.recs]

\* the pages the ledger may return: empty, one record, one short of full, full
PageSizes == {0, 1, limit - 1, limit}

Pages ==
    {p \in [n : PageSizes, recs : SUBSET Records] :
        /\ Cardinality(p.recs) <= MaxPageRecs
        /\ Cardinality(p.recs) <= p.n
        /\ (p.n > 0 => p.recs # {})}

\* one HTTP exchange with the ledger service, as Query sees it
Responses ==
    {[kind |-> "transport", errors |-> 0, dataOK |-> FALSE, page |-> NilPositions],
     [kind |-> "malformed", errors |-> 0, dataOK |-> FALSE, page |-> NilPositions],
     [kind |-> "envelope",  errors |-> 0, dataOK |-> FALSE, page |-> NilPositions]}
    \cup {[kind |-> "envelope", errors |-> e, dataOK |-> TRUE, page |-> p] :
            e \in {0, 1}, p \in Pages}

(***************************************************************************)
(* Query (subgraph.go): one GraphQL call; the result is (data, err).       *)
(***************************************************************************)
NoData == [ok |-> FALSE, page |-> NilPositions]

QueryMut(resp) ==
    IF resp.kind = "transport"
    THEN [data |-> NoData, err |-> "failed to execute query"]
    ELSE IF resp.kind = "malformed"
    THEN [data |-> NoData, err |-> "failed to parse response"]
    ELSE IF resp.errors > 0 /\ ~resp.dataOK
    THEN [data |-> NoData, err |-> "GraphQL error"]
    ELSE [data |-> [ok |-> resp.dataOK, page |-> resp.page], err |-> NoErr]

Query(resp) ==
    IF resp.kind = "transport"
    THEN [data |-> NoData, err |-> "failed to execute query"]
    ELSE IF resp.kind = "malformed"
    THEN [data |-> NoData, err |-> "failed to parse response"]
    ELSE IF resp.errors > 0
    THEN [data |-> NoData, err |-> "GraphQL error"]
    ELSE [data |-> [ok |-> resp.dataOK, page |-> resp.page], err |-> NoErr]

(***************************************************************************)
(* GetMarketPositions (subgraph.go).                                       *)
(***************************************************************************)
\* if len(result.Positions) < limit { break }
IsLastPageMut(n) == n = 0
IsLastPage(n) == n < limit

\* if skip > 10000 { break }
PastSafetyLimitMut(s) == s > 10 * SafetyLimit
PastSafetyLimit(s) == s > SafetyLimit

\* the state before a request begins
NoMarket == MakeMarket([ID |-> "", ConditionID |-> "", Question |-> ""], <<>>, <<>>)
NoRet    == [positions |-> NilPositions, err |-> "none"]
NoReply  == [kind |-> "none", errors |-> 0, dataOK |-> FALSE, n |-> 0]

\* the zero time.Time: a time is [day, sec], the days since January 1 of
\* year 1 and the seconds of the day, in UTC
ZeroTime == [day |-> 0, sec |-> 0]

\* no handler of main.go has been entered
NoRequest  == [op |-> "none", id |-> "", q |-> "", limit |-> <<>>, offset |-> <<>>]
NoCatalog  == [kind |-> "none", body |-> <<>>]
NoCall     == [fn |-> "none", id |-> "", q |-> "", limit |-> 0, offset |-> 0]
NoResponse == [Status |-> 0, Success |-> FALSE, Data |-> <<>>, Error |-> ""]

Unserved ==
    /\ request = NoRequest
    /\ catalog = NoCatalog
    /\ now = ZeroTime
    /\ call = NoCall
    /\ response = NoResponse

Init ==
    /\ pc = "idle"
    /\ market = NoMarket
    /\ skip = 0
    /\ allPositions = NilPositions
    /\ requests = <<>>
    /\ fetchRet = NoRet
    /\ stats = NilStats
    /\ statsErr = "none"
    /\ mode = "none"
    /\ ledgerReply = NoReply
    /\ Unserved
    /\ procs = <<>>

\* ComputeMarketStats(market) is called and calls GetMarketPositions, which
\* initialises its locals
CallComputeMarketStats ==
    /\ pc = "idle"
    /\ \E m \in RequestMarkets : market' = m
    /\ skip' = 0
    /\ allPositions' = NilPositions
    /\ pc' = "paging"
    /\ UNCHANGED <<requests, fetchRet, stats, statsErr, mode, ledgerReply>>
    /\ UNCHANGED <<facade, procs>>

\* GetMarketPositions returns (positions, err)
ReturnsMut(positions, err) ==
    /\ fetchRet' = [positions |-> allPositions, err |-> err]
    /\ pc' = "fetched"

Returns(positions, err) ==
    /\ fetchRet' = [positions |-> positions, err |-> err]
    /\ pc' = "fetched"

\* the entry of the request log: the variables sent, and the size of the
\* page that came back (-1: the query failed, -2: the data did not parse)
Logged(q) ==
    [skip  |-> skip,
     first |-> limit,
     reply |-> IF q.err # NoErr THEN -1 ELSE IF ~q.data.ok THEN -2 ELSE q.data.page.n]

\* the loop body after the two error returns, page being result.Positions
TakePageMut(page, all) ==
    /\ allPositions' = all
    /\ IF IsLastPage(page.n)
       THEN skip' = skip /\ Returns(all, NoErr)
       ELSE /\ skip' = skip
            /\ IF PastSafetyLimit(skip)
               THEN Returns(all, NoErr)
               ELSE fetchRet' = fetchRet /\ pc' = "paging"

TakePage(page, all) ==
    /\ allPositions' = all
    /\ IF IsLastPage(page.n)
       THEN skip' = skip /\ Returns(all, NoErr)
       ELSE /\ skip' = skip + limit
            /\ IF PastSafetyLimit(skip + limit)
               THEN Returns(all, NoErr)
               ELSE fetchRet' = fetchRet /\ pc' = "paging"

\* the loop body after c.Query has returned q = (data, err)
HandleReply(q) ==
    /\ requests' = Append(requests, Logged(q))
    /\ IF q.err # NoErr
       THEN /\ Returns(NilPositions, "failed to query positions")
            /\ UNCHANGED <<skip, allPositions>>
       ELSE IF ~q.data.ok
       THEN /\ Returns(NilPositions, "failed to parse positions")
            /\ UNCHANGED <<skip, allPositions>>
       ELSE TakePage(q.data.page, AppendPositions(allPositions, q.data.page))

\* what the reply was, without the records of its page: the kind of
\* exchange, len(gqlResp.Errors), whether gqlResp.Data parses, and the
\* number of positions it holds
Envelope(resp) ==
    [kind |-> resp.kind, errors |-> resp.errors, dataOK |-> resp.dataOK,
     n |-> resp.page.n]

\* one iteration of the for loop of GetMarketPositions: the request with
\* the current skip, and what the code does with the reply
QueryPage ==
    /\ pc = "paging"
    /\ \E resp \in Responses : ledgerReply' = Envelope(resp) /\ HandleReply(Query(resp))
    /\ UNCHANGED <<market, stats, statsErr, mode>>
    /\ UNCHANGED <<facade, procs>>

\* the rest of ComputeMarketStats, after GetMarketPositions has returned
Returned(r) ==
    /\ stats' = r.stats
    /\ statsErr' = r.err
    /\ mode' = r.mode

ReturnStats ==
    /\ pc = "fetched"
    /\ Returned(ComputeMarketStats(market, fetchRet))
    /\ pc' = "done"
    /\ UNCHANGED <<market, skip, allPositions, requests, fetchRet, ledgerReply>>
    /\ UNCHANGED <<facade, procs>>

Next == CallComputeMarketStats \/ QueryPage \/ ReturnStats

Spec == Init /\ [][Next]_vars

\* every page request that is issued returns: c.Query comes back with a
\* page or with an error (the HTTP client has a timeout)
SpecReturning == Init /\ [][Next]_vars /\ WF_vars(QueryPage)

(***************************************************************************)
(* The derivation alone: GetMarketPositions has returned, with an error    *)
(* or with a short position list, and ComputeMarketStats goes on.          *)
(***************************************************************************)
\* position lists with up to MaxStatRecs distinct pairs
StatLists ==
    {[n |-> Cardinality(R), recs |-> R] :
        R \in {X \in SUBSET Records : Cardinality(X) <= MaxStatRecs}}

FetchReturns ==
    {[positions |-> NilPositions, err |-> "failed to query positions"]}
    \cup {[positions |-> l, err |-> NoErr] : l \in StatLists}

FewFetchReturns ==
    {r \in FetchReturns : r.positions.n = 0}

InitStats ==
    /\ pc = "fetched"
    /\ \/ market \in PriceMarkets /\ fetchRet \in FewFetchReturns
       \/ market \in LedgerMarkets /\ fetchRet \in FetchReturns
    /\ skip = 0
    /\ allPositions = fetchRet.positions
    /\ requests = <<>>
    /\ stats = NilStats
    /\ statsErr = "none"
    /\ mode = "none"
    /\ ledgerReply = NoReply
    /\ Unserved
    /\ procs = <<>>

NextStats == ReturnStats

SpecStats == InitStats /\ [][NextStats]_vars

(***************************************************************************)
(* The catalog client (models.go).                                         *)
(*                                                                         *)
(* A JSON text that the code decodes field by field (GammaMarket.Outcomes  *)
(* and GammaMarket.OutcomePrices) is the sequence of its tokens: the       *)
(* punctuation, null, a number, or a string literal with its content.  A   *)
(* date string is a sequence of one-char strings.  A time.Time is the      *)
(* instant [day, sec]: days since January 1 of year 1 and seconds of the   *)
(* day, UTC, without the fraction of a second; the process runs in UTC,    *)
(* where AddDate(0, 0, -1) is 24 hours earlier.                            *)
(***************************************************************************)
Punct(c) == [t |-> c]
Str(x)   == [t |-> "str", v |-> x]

\* json.Unmarshal(text, &slice) for a []string: the result is (slice, err).
\* The text is checked for syntax first; then the elements are decoded, an
\* element that is no string leaves the zero value and a type error.
SyntaxError == [val |-> <<>>, err |-> "syntax"]

RECURSIVE ArrayValue(_, _, _, _, _)
RECURSIVE ArrayNext(_, _, _, _, _)
ArrayValue(ts, i, acc, bad, zero) ==
    IF i > Len(ts) THEN SyntaxError
    ELSE IF ts[i].t = "str"
    THEN ArrayNext(ts, i + 1, Append(acc, ts[i].v), bad, zero)
    ELSE IF ts[i].t = "null"
    THEN ArrayNext(ts, i + 1, Append(acc, zero), bad, zero)
    ELSE IF ts[i].t = "num"
    THEN ArrayNext(ts, i + 1, Append(acc, zero), TRUE, zero)
    ELSE SyntaxError

ArrayNext(ts, i, acc, bad, zero) ==
    IF i > Len(ts) THEN SyntaxError
    ELSE IF ts[i].t = ","
    THEN ArrayValue(ts, i + 1, acc, bad, zero)
    ELSE IF ts[i].t = "]" /\ i = Len(ts)
    THEN [val |-> acc, err |-> IF bad THEN "type" ELSE NoErr]
    ELSE SyntaxError

Unmarshal(ts, zero) ==
    IF ts = <<>> THEN SyntaxError
    ELSE IF Len(ts) = 1
    THEN IF ts[1].t = "null" THEN [val |-> <<>>, err |-> NoErr]
         ELSE IF ts[1].t \in {"str", "num"} THEN [val |-> <<>>, err |-> "type"]
         ELSE SyntaxError
    ELSE IF ts[1].t # "[" THEN SyntaxError
    ELSE IF ts[2].t = "]"
    THEN IF Len(ts) = 2 THEN [val |-> <<>>, err |-> NoErr] ELSE SyntaxError
    ELSE ArrayValue(ts, 2, <<>>, FALSE, zero)

\* if err == nil { market.Outcomes = outcomes }, r being (outcomes, err)
ParsedOrNilMut(r) == r.val
ParsedOrNil(r) == IF r.err = NoErr THEN r.val ELSE <<>>

\* the two blocks "if gm.Outcomes != "" { ... }" of convertGammaMarket
StringArray(text, zero) ==
    IF text = <<>> THEN <<>> ELSE ParsedOrNil(Unmarshal(text, zero))

(***************************************************************************)
(* time.Parse(layout, value), for the layouts convertGammaMarket uses.  A  *)
(* layout is the sequence of its elements; the fields parsed are kept in   *)
(* a function from the element to its value.                               *)
(***************************************************************************)
IsLeap(y) == y % 4 = 0 /\ (y % 100 # 0 \/ y % 400 = 0)

DaysIn(m, y) ==
    IF m = 2 THEN (IF IsLeap(y) THEN 29 ELSE 28)
    ELSE IF m \in {4, 6, 9, 11} THEN 30 ELSE 31

\* the days of a common year before month m
DaysBefore(m) ==
    CASE m = 1 -> 0   [] m = 2 -> 31   [] m = 3 -> 59   [] m = 4 -> 90
      [] m = 5 -> 120 [] m = 6 -> 151  [] m = 7 -> 181  [] m = 8 -> 212
      [] m = 9 -> 243 [] m = 10 -> 273 [] m = 11 -> 304 [] m = 12 -> 334

\* time.Date(y, m, d, h, mi, s, 0, time.UTC)
Date(y, m, d, h, mi, s) ==
    [day |-> 365 * (y - 1) + ((y - 1) \div 4) - ((y - 1) \div 100)
               + ((y - 1) \div 400) + DaysBefore(m)
               + (IF m > 2 /\ IsLeap(y) THEN 1 ELSE 0) + (d - 1),
     sec |-> h * 3600 + mi * 60 + s]

\* the instant off seconds after t (before it when off < 0)
AddSeconds(t, off) ==
    [day |-> t.day + ((t.sec + off) \div 86400), sec |-> (t.sec + off) % 86400]

ParseError == [t |-> ZeroTime, err |-> "parsing time"]

NoFields == [e \in {"2006", "01", "02", "15", "04", "05", "Z07:00"} |-> 0]

\* getnum(s, fixed) at position i: one or two digits; next = 0 is errBad
GetNum(s, i, fixed) ==
    IF ~(i <= Len(s) /\ s[i] \in DecimalDigits)
    THEN [v |-> 0, next |-> 0]
    ELSE IF ~(i + 1 <= Len(s) /\ s[i + 1] \in DecimalDigits)
    THEN IF fixed THEN [v |-> 0, next |-> 0]
                  ELSE [v |-> DigitValue(s[i]), next |-> i + 1]
    ELSE [v |-> 10 * DigitValue(s[i]) + DigitValue(s[i + 1]), next |-> i + 2]

\* the checks of the fields, and the time they stand for
FieldsTime(f) ==
    IF \/ f["01"] < 1 \/ f["01"] > 12
       \/ f["02"] < 1 \/ f["02"] > DaysIn(f["01"], f["2006"])
       \/ f["15"] >= 24 \/ f["04"] >= 60 \/ f["05"] >= 60
    THEN ParseError
    ELSE [t   |-> AddSeconds(Date(f["2006"], f["01"], f["02"],
                                  f["15"], f["04"], f["05"]), 0 - f["Z07:00"]),
          err |-> NoErr]

RECURSIVE ParseLayout(_, _, _, _, _)

\* a field of one or two digits has been read as num
NumField(layout, k, s, f, num) ==
    IF num.next = 0 THEN ParseError
    ELSE ParseLayout(layout, k + 1, s, num.next, [f EXCEPT ![layout[k]] = num.v])

\* the offset +hh:mm or -hh:mm at position i
ZoneOffset(layout, k, s, i, f, hh, mm) ==
    IF hh.next = 0 \/ mm.next = 0 \/ hh.v > 24 \/ mm.v > 60 THEN ParseError
    ELSE ParseLayout(layout, k + 1, s, i + 6,
             [f EXCEPT !["Z07:00"] =
                 (IF s[i] = "-" THEN -1 ELSE 1) * (hh.v * 3600 + mm.v * 60)])

\* layout[k..] is matched against s[i..]
ParseLayout(layout, k, s, i, f) ==
    IF k > Len(layout)
    THEN IF i <= Len(s) THEN ParseError ELSE FieldsTime(f)
    ELSE IF layout[k] = "2006"
    THEN IF i + 3 <= Len(s) /\ \A j \in i..(i + 3) : s[j] \in DecimalDigits
         THEN ParseLayout(layout, k + 1, s, i + 4,
                  [f EXCEPT !["2006"] = DigitsValue(SubSeq(s, i, i + 3), 0)])
         ELSE ParseError
    ELSE IF layout[k] \in {"01", "02", "15", "04", "05"}
    THEN NumField(layout, k, s, f, GetNum(s, i, layout[k] # "15"))
    ELSE IF layout[k] = "Z07:00"
    THEN IF i <= Len(s) /\ s[i] = "Z"
         THEN ParseLayout(layout, k + 1, s, i + 1, f)
         ELSE IF i + 5 > Len(s) THEN ParseError
         ELSE IF s[i + 3] # ":" \/ s[i] \notin {"+", "-"} THEN ParseError
         ELSE ZoneOffset(layout, k, s, i, f,
                         GetNum(s, i + 1, TRUE), GetNum(s, i + 4, TRUE))
    ELSE IF i <= Len(s) /\ s[i] = layout[k]
    THEN ParseLayout(layout, k + 1, s, i + 1, f)
    ELSE ParseError

TimeParse(layout, value) == ParseLayout(layout, 1, value, 1, NoFields)

\* the formats of convertGammaMarket, in the order they are tried:
\* time.RFC3339, "2006-01-02", "2006-01-02T15:04:05"
Formats ==
    <<<<"2006", "-", "01", "-", "02", "T", "15", ":", "04", ":", "05", "Z07:00">>,
      <<"2006", "-", "01", "-", "02">>,
      <<"2006", "-", "01", "-", "02", "T", "15", ":", "04", ":", "05">>>>

RECURSIVE TryFormats(_, _)
\* r is what time.Parse returned for the k-th format
FirstMatch(value, k, r) ==
    IF r.err = NoErr THEN r.t ELSE TryFormats(value, k + 1)

TryFormats(value, k) ==
    IF k > Len(Formats) THEN ZeroTime
    ELSE FirstMatch(value, k, TimeParse(Formats[k], value))

\* the block "if gm.EndDateISO != "" { ... }" of convertGammaMarket
EndDateOf(value) == IF value = <<>> THEN ZeroTime ELSE TryFormats(value, 1)

\* Active: gm.Active && !gm.Closed
ActiveFlagMut(active, closed) == active
ActiveFlag(active, closed) == active /\ ~closed

convertGammaMarket(gm) ==
    [ID            |-> gm.ID,
     ConditionID   |-> gm.ConditionID,
     Question      |-> gm.Question,
     Description   |-> gm.Description,
     Outcomes      |-> StringArray(gm.Outcomes, ""),
     OutcomeTokens |-> StringArray(gm.OutcomePrices, <<>>),
     EndDate       |-> EndDateOf(gm.EndDateISO),
     Volume        |-> gm.Volume,
     Liquidity     |-> gm.Liquidity,
     Active        |-> ActiveFlag(gm.Active, gm.Closed)]

(***************************************************************************)
(* The expiry filter of FetchMarkets and SearchMarkets, and the three      *)
(* calls of the client.  reply is the HTTP exchange with the catalog:      *)
(* [kind, body], kind "ok" being a 200 response whose body decodes.        *)
(***************************************************************************)
IsZero(t) == t = ZeroTime

Before(t, u) == t.day < u.day \/ (t.day = u.day /\ t.sec < u.sec)

\* t.AddDate(0, 0, days)
AddDate(t, days) == [day |-> t.day + days, sec |-> t.sec]

\* !market.EndDate.IsZero() && market.EndDate.Before(now.AddDate(0, 0, -1))
ExpiredNoZeroCheck(end, t) == Before(end, AddDate(t, -1))
ExpiredNoGrace(end, t) == ~IsZero(end) /\ Before(end, t)
Expired(end, t) == ~IsZero(end) /\ Before(end, AddDate(t, -1))

\* the error a client call returns for an exchange that is not "ok"
CatalogError(kind) ==
    CASE kind = "transport"  -> "failed to fetch"
      [] kind = "status"     -> "API error"
      [] kind = "unreadable" -> "failed to read response"
      [] kind = "malformed"  -> "failed to parse"

RECURSIVE ListLoop(_, _, _, _)
\* the body of the loop of FetchMarkets, m being the converted gms[i]
ListStep(gms, i, t, markets, m) ==
    ListLoop(gms, i + 1, t,
             IF Expired(m.EndDate, t) THEN markets ELSE Append(markets, m))

ListLoop(gms, i, t, markets) ==
    IF i > Len(gms) THEN markets
    ELSE ListStep(gms, i, t, markets, convertGammaMarket(gms[i]))

FetchMarkets(reply, t) ==
    IF reply.kind # "ok"
    THEN [markets |-> <<>>, err |-> CatalogError(reply.kind)]
    ELSE [markets |-> ListLoop(reply.body, 1, t, <<>>), err |-> NoErr]

FetchMarketByIDMut(reply) ==
    IF reply.kind # "ok"
    THEN [market |-> NoMarket, err |-> CatalogError(reply.kind)]
    ELSE IF reply.body.Closed
    THEN [market |-> NoMarket, err |-> "API error"]
    ELSE [market |-> convertGammaMarket(reply.body), err |-> NoErr]

FetchMarketByID(reply) ==
    IF reply.kind # "ok"
    THEN [market |-> NoMarket, err |-> CatalogError(reply.kind)]
    ELSE [market |-> convertGammaMarket(reply.body), err |-> NoErr]

RECURSIVE EventLoop(_, _, _, _)
\* the body of the inner loop of SearchMarkets for an active, non-closed
\* gms[i], m being the converted record
EventStep(gms, i, t, markets, m) ==
    EventLoop(gms, i + 1, t,
              IF Expired(m.EndDate, t) THEN markets ELSE Append(markets, m))

EventLoop(gms, i, t, markets) ==
    IF i > Len(gms) THEN markets
    ELSE IF gms[i].Active /\ ~gms[i].Closed
    THEN EventStep(gms, i, t, markets, convertGammaMarket(gms[i]))
    ELSE EventLoop(gms, i + 1, t, markets)

RECURSIVE SearchLoop(_, _, _, _, _)
\* the end of the body of the outer loop: markets holds those of events[1..e]
LimitResults(events, e, lim, t, markets) ==
    IF Len(markets) >= lim THEN SubSeq(markets, 1, lim)
    ELSE SearchLoop(events, e + 1, lim, t, markets)

SearchLoop(events, e, lim, t, markets) ==
    IF e > Len(events) THEN markets
    ELSE LimitResults(events, e, lim, t,
                      EventLoop(events[e].Markets, 1, t, markets))

SearchMarkets(reply, lim, t) ==
    IF reply.kind # "ok"
    THEN [markets |-> <<>>, err |-> CatalogError(reply.kind)]
    ELSE [markets |-> SearchLoop(reply.body, 1, lim, t, <<>>), err |-> NoErr]

(***************************************************************************)
(* The handlers (main.go).  A query parameter is a sequence of one-char    *)
(* strings, the empty sequence when the parameter is absent.               *)
(***************************************************************************)
\* strconv.Atoi of the digits s that follow the sign
Unsigned(sign, s) ==
    IF s = <<>> \/ \E j \in 1..Len(s) : s[j] \notin DecimalDigits
    THEN [v |-> 0, err |-> "invalid syntax"]
    ELSE [v |-> sign * DigitsValue(s, 0), err |-> NoErr]

\* strconv.Atoi: (value, err)
Atoi(s) ==
    IF s # <<>> /\ s[1] = "-" THEN Unsigned(-1, Tail(s))
    ELSE IF s # <<>> /\ s[1] = "+" THEN Unsigned(1, Tail(s))
    ELSE Unsigned(1, s)

\* err == nil && parsed > 0 && parsed <= max
InRangeMut(parsed, max) == parsed.err = NoErr /\ parsed.v >= 0 /\ parsed.v <= max
InRange(parsed, max) == parsed.err = NoErr /\ parsed.v > 0 /\ parsed.v <= max

\* limit := default; if l != "" { if parsed ... { limit = parsed } }
LimitParam(l, default, max) ==
    IF l # <<>> /\ InRange(Atoi(l), max) THEN Atoi(l).v ELSE default

\* offset := 0; if o != "" { if parsed, err := Atoi(o); err == nil && parsed >= 0 ...
OffsetParam(o) ==
    IF o # <<>> /\ Atoi(o).err = NoErr /\ Atoi(o).v >= 0 THEN Atoi(o).v ELSE 0

\* the two APIResponse values the handlers encode, with the status written
Failure(status, err) ==
    [Status |-> status, Success |-> FALSE, Data |-> <<>>, Error |-> err]
Success(data) ==
    [Status |-> 200, Success |-> TRUE, Data |-> data, Error |-> ""]

\* the response of a handler whose client call returned (data, err)
Respond(data, err) ==
    IF err # NoErr THEN Failure(500, err) ELSE Success(data)

(***************************************************************************)
(* Inputs of the handlers: requests, the wall clock, and the replies of    *)
(* the catalog.                                                            *)
(***************************************************************************)
RECURSIVE Elements(_)
Elements(list) ==
    IF list = <<>> THEN <<>>
    ELSE IF Len(list) = 1 THEN <<Str(list[1])>>
    ELSE <<Str(list[1]), Punct(",")>> \o Elements(Tail(list))

\* the JSON text of an array of strings
JSONArray(list) == <<Punct("[")>> \o Elements(list) \o <<Punct("]")>>

\* texts that are no array of strings: unterminated, a number among the
\* elements, a trailing comma, a bare string, a missing comma
BadTexts(x) ==
    {<<Punct("["), Str(x)>>,
     <<Punct("["), Str(x), Punct(","), Punct("num"), Punct("]")>>,
     <<Punct("["), Str(x), Punct(","), Punct("]")>>,
     <<Str(x)>>,
     <<Punct("["), Str(x), Str(x), Punct("]")>>}

\* GammaMarket.Outcomes: absent, arrays of strings, null, a null element,
\* and texts that are no array of strings
OutcomeTexts ==
    {<<>>, <<Punct("null")>>,
     <<Punct("["), Str("Yes"), Punct(","), Punct("null"), Punct("]")>>}
    \cup {JSONArray(o) : o \in OutcomeLists}
    \cup BadTexts("Yes")

\* GammaMarket.OutcomePrices
PriceTexts ==
    {<<>>, JSONArray(<<<<"0", ".", "7">>, <<"0", ".", "3">>>>),
     JSONArray(<<<<"z">>, <<"1", ".", "5">>>>)}
    \cup {b \in BadTexts(<<"0", ".", "7">>) : Len(b) # 3}

\* GammaMarket.EndDateISO: 2024-03-10T12:00:00Z, 2024-03-10,
\* 2024-03-10T12:00:00, 2024-03-10T12:00:00+02:00, 2030-01-01,
\* 0001-01-01T00:00:00Z, the empty string, and five strings in none of the
\* formats: "2024-03-10 12:00:00", 2024/03/10, 2024-13-10, 2024-02-30, soon
EndDateStrings ==
    <<<<"2", "0", "2", "4", "-", "0", "3", "-", "1", "0", "T", "1", "2", ":", "0", "0", ":", "0", "0", "Z">>,
      <<"2", "0", "2", "4", "-", "0", "3", "-", "1", "0">>,
      <<"2", "0", "2", "4", "-", "0", "3", "-", "1", "0", "T", "1", "2", ":", "0", "0", ":", "0", "0">>,
      <<"2", "0", "2", "4", "-", "0", "3", "-", "1", "0", "T", "1", "2", ":", "0", "0", ":", "0", "0", "+", "0", "2", ":", "0", "0">>,
      <<"2", "0", "3", "0", "-", "0", "1", "-", "0", "1">>,
      <<"0", "0", "0", "1", "-", "0", "1", "-", "0", "1", "T", "0", "0", ":", "0", "0", ":", "0", "0", "Z">>,
      <<>>,
      <<"2", "0", "2", "4", "-", "0", "3", "-", "1", "0", " ", "1", "2", ":", "0", "0", ":", "0", "0">>,
      <<"2", "0", "2", "4", "/", "0", "3", "/", "1", "0">>,
      <<"2", "0", "2", "4", "-", "1", "3", "-", "1", "0">>,
      <<"2", "0", "2", "4", "-", "0", "2", "-", "3", "0">>,
      <<"s", "o", "o", "n">>>>

\* time.Now(): around 24 hours after 2024-03-10T12:00:00Z and after
\* 2024-03-10T00:00:00Z, before all end dates but one, and after them all
Times ==
    <<Date(2024, 3, 11, 11, 59, 59), Date(2024, 3, 11, 12, 0, 0),
      Date(2024, 3, 11, 12, 0, 1),   Date(2024, 3, 10, 23, 59, 59),
      Date(2024, 3, 11, 0, 0, 0),    Date(2024, 3, 11, 0, 0, 1),
      Date(2024, 3, 9, 0, 0, 0),     Date(2031, 1, 1, 0, 0, 0)>>

GammaMarketOf(id, outcomes, prices, date, active, closed) ==
    [ID            |-> id.ID,
     ConditionID   |-> id.ConditionID,
     Question      |-> id.Question,
     Description   |-> "about " \o id.ID,
     Outcomes      |-> outcomes,
     OutcomePrices |-> prices,
     EndDateISO    |-> date,
     Volume        |-> "1000.5",
     Liquidity     |-> "10",
     Active        |-> active,
     Closed        |-> closed]

\* the records the single-market endpoint may return
RawRecords ==
    {GammaMarketOf(id, o, p, d, a, c) :
        id \in {i \in Identities : i.ID = "m1"},
        o \in OutcomeTexts, p \in PriceTexts,
        d \in {EndDateStrings[i] : i \in DOMAIN EndDateStrings},
        a \in BOOLEAN, c \in BOOLEAN}

\* the records of the list endpoint: every end date, and a closed one
ListRecords ==
    {r \in RawRecords :
        /\ r.Outcomes = JSONArray(<<"Yes", "No">>)
        /\ r.OutcomePrices = JSONArray(<<<<"0", ".", "7">>, <<"0", ".", "3">>>>)
        /\ r.Active
        /\ (r.Closed => r.EndDateISO = EndDateStrings[1])}

\* the records of the search endpoint: end date at 2024-03-10T12:00:00Z,
\* in 2030 or unreadable, active or not, closed or not
SearchRecords ==
    {r \in RawRecords :
        /\ r.Outcomes = JSONArray(<<"Yes", "No">>)
        /\ r.OutcomePrices = <<>>
        /\ \/ r.EndDateISO = EndDateStrings[1] /\ r.Active
           \/ r.EndDateISO = EndDateStrings[5] /\ ~r.Closed
           \/ r.EndDateISO = EndDateStrings[9] /\ r.Active /\ ~r.Closed}

\* the records of a stats request: two outcome namings, open with a
\* future end date or closed with a past one
StatsRecords ==
    {r \in RawRecords :
        /\ r.Outcomes \in {JSONArray(<<"Yes", "No">>), JSONArray(<<"1", "0">>)}
        /\ r.OutcomePrices = JSONArray(<<<<"0", ".", "7">>, <<"0", ".", "3">>>>)
        /\ \/ r.EndDateISO = EndDateStrings[5] /\ r.Active /\ ~r.Closed
           \/ r.EndDateISO = EndDateStrings[2] /\ r.Active /\ r.Closed}

FailedExchanges ==
    {[kind |-> k, body |-> <<>>] :
        k \in {"transport", "status", "unreadable", "malformed"}}

OK(body) == [kind |-> "ok", body |-> body]

MarketReplies == FailedExchanges \cup {OK(r) : r \in RawRecords}
StatsReplies  == FailedExchanges \cup {OK(r) : r \in StatsRecords}
ListReplies   == FailedExchanges \cup {OK(l) : l \in SeqsUpTo(ListRecords, MaxListed)}

\* GammaEvent: the markets of an event
Events == {[ID |-> "e1", Markets |-> l] : l \in SeqsUpTo(SearchRecords, MaxListed)}

\* the lists of up to n events that hold up to k markets together
RECURSIVE EventLists(_, _)
EventLists(n, k) ==
    IF n = 0 THEN {<<>>}
    ELSE {<<>>} \cup
         UNION {{<<e>> \o l : l \in EventLists(n - 1, k - Len(e.Markets))} :
                   e \in {x \in Events : Len(x.Markets) <= k}}

\* up to MaxEvents events that hold up to MaxListed + 1 markets together
SearchReplies ==
    FailedExchanges \cup {OK(l) : l \in EventLists(MaxEvents, MaxListed + 1)}

\* the values of the query parameters limit and offset
ParamStrings ==
    {<<>>, <<"0">>, <<"1">>, <<"5", "0">>,
     <<"1", "0", "0">>, <<"1", "0", "1">>, <<"-", "5">>, <<"+", "7">>,
     <<"a", "b", "c">>, <<"7", "x">>}

Request(op, id, q, l, o) ==
    [op |-> op, id |-> id, q |-> q, limit |-> l, offset |-> o]

Call(fn, id, q, l, o) ==
    [fn |-> fn, id |-> id, q |-> q, limit |-> l, offset |-> o]

(***************************************************************************)
(* The handlers as actions.  handleGetMarkets, handleSearchMarkets and     *)
(* handleGetMarket make one upstream call and are one step each;           *)
(* handleGetMarketStats goes on with the steps of the statistics pipeline. *)
(***************************************************************************)
\* the response to FetchMarkets or SearchMarkets that returned r
Answer(r) == Respond(r.markets, r.err)

\* what a handler leaves behind
Served(req, reply, t, c, resp) ==
    /\ request' = req
    /\ catalog' = reply
    /\ now' = t
    /\ call' = c
    /\ response' = resp

\* every pair of parameters with one reply, and every reply at every time
\* with no parameters
handleGetMarkets ==
    /\ pc = "idle"
    /\ \E l \in ParamStrings, o \in ParamStrings, reply \in ListReplies,
          j \in DOMAIN Times :
          /\ \/ l = <<>> /\ o = <<>>
             \/ reply.kind = "ok" /\ reply.body = <<>> /\ j = 1
          /\ Served(Request("list", "", "", l, o), reply, Times[j],
                    Call("FetchMarkets", "", "",
                         LimitParam(l, DefaultLimit, MaxLimit), OffsetParam(o)),
                    Answer(FetchMarkets(reply, Times[j])))
    /\ pc' = "responded"
    /\ UNCHANGED <<market, skip, allPositions, requests, fetchRet, stats,
                   statsErr, mode, ledgerReply, procs>>

handleSearchMarkets ==
    /\ pc = "idle"
    /\ \E q \in {"", "btc"}, l \in {<<>>, <<"1">>, <<"2">>, <<"0">>},
          reply \in SearchReplies, j \in {2, 3} :
          /\ l = <<>> \/ j = 2
          /\ IF q = ""
             THEN Served(Request("search", "", q, l, <<>>), NoCatalog, Times[j],
                         NoCall, Failure(400, "query parameter 'q' is required"))
             ELSE Served(Request("search", "", q, l, <<>>), reply, Times[j],
                         Call("SearchMarkets", "", q,
                              LimitParam(l, DefaultSearchLimit, MaxSearchLimit), 0),
                         Answer(SearchMarkets(reply,
                              LimitParam(l, DefaultSearchLimit, MaxSearchLimit),
                              Times[j])))
    /\ pc' = "responded"
    /\ UNCHANGED <<market, skip, allPositions, requests, fetchRet, stats,
                   statsErr, mode, ledgerReply, procs>>

handleGetMarket ==
    /\ pc = "idle"
    /\ \E reply \in MarketReplies, j \in {7, 8} :
          Served(Request("get", "m1", "", <<>>, <<>>), reply, Times[j],
                 Call("FetchMarketByID", "m1", "", 0, 0),
                 Respond(FetchMarketByID(reply).market,
                         FetchMarketByID(reply).err))
    /\ pc' = "responded"
    /\ UNCHANGED <<market, skip, allPositions, requests, fetchRet, stats,
                   statsErr, mode, ledgerReply, procs>>

\* FetchMarketByID has returned r: the failure response, or the call of
\* ComputeMarketStats, which calls GetMarketPositions
LookedUp(r) ==
    IF r.err # NoErr
    THEN /\ response' = Failure(500, r.err)
         /\ pc' = "responded"
         /\ UNCHANGED <<market, skip, allPositions>>
    ELSE /\ response' = response
         /\ pc' = "paging"
         /\ market' = r.market
         /\ skip' = 0
         /\ allPositions' = NilPositions

handleGetMarketStats ==
    /\ pc = "idle"
    /\ \E reply \in StatsReplies :
          /\ request' = Request("stats", "m1", "", <<>>, <<>>)
          /\ catalog' = reply
          /\ now' = Times[8]
          /\ call' = Call("FetchMarketByID", "m1", "", 0, 0)
          /\ LookedUp(FetchMarketByID(reply))
    /\ UNCHANGED <<requests, fetchRet, stats, statsErr, mode, ledgerReply, procs>>

\* ComputeMarketStats has returned to handleGetMarketStats
WriteStats ==
    /\ pc = "done"
    /\ request.op = "stats"
    /\ response' = Respond(stats, statsErr)
    /\ pc' = "responded"
    /\ UNCHANGED <<market, skip, allPositions, requests, fetchRet, stats,
                   statsErr, mode, ledgerReply>>
    /\ UNCHANGED <<request, catalog, now, call, procs>>

NextServer ==
    \/ handleGetMarkets
    \/ handleSearchMarkets
    \/ handleGetMarket
    \/ handleGetMarketStats
    \/ QueryPage
    \/ ReturnStats
    \/ WriteStats

SpecServer == Init /\ [][NextServer]_vars

(***************************************************************************)
(* Concurrent requests.  net/http runs every handler call in a goroutine   *)
(* of its own.  What the calls share is the Server with its two clients,   *)
(* whose fields are set by NewServer and never assigned again; everything  *)
(* else a handler touches is a local of the call.  procs[r] holds the      *)
(* locals of request r, and the upstream replies it has consumed; a step   *)
(* is what one request does between two upstream exchanges.                *)
(***************************************************************************)
\* the locals of a call that has not begun
NewLocals ==
    [op |-> "none", pc |-> "new", reply |-> NoCatalog, pages |-> <<>>,
     market |-> NoMarket, skip |-> 0, allPositions |-> NilPositions,
     response |-> NoResponse]

\* var allPositions []PositionData is declared in GetMarketPositions: the
\* accumulator request r appends to is the one of its own call
OwnerMut(r) == 1
Owner(r) == r

\* the catalog replies and the ledger replies of the concurrent requests:
\* a failure or one record; a failure, a short page, or, for the first
\* page request only, a full page
ConcReplies(op) ==
    IF op = "list"
    THEN {[kind |-> "transport", body |-> <<>>]}
         \cup {OK(<<x>>) : x \in {r \in ListRecords :
                    r.EndDateISO \in {EndDateStrings[1], EndDateStrings[5],
                                      EndDateStrings[9]}}}
    ELSE IF op = "search"
    THEN {OK(<<[ID |-> "e1", Markets |-> <<x>>]>>) : x \in SearchRecords}
    ELSE {[kind |-> "status", body |-> <<>>]}
         \cup {OK(x) : x \in {r \in StatsRecords :
                    r.Outcomes = JSONArray(<<"Yes", "No">>) /\ ~r.Closed}}

ConcResponses(s) ==
    {[kind |-> "transport", errors |-> 0, dataOK |-> FALSE, page |-> NilPositions]}
    \cup {[kind |-> "envelope", errors |-> 0, dataOK |-> TRUE,
           page |-> [n |-> k, recs |-> {x}]] :
             k \in IF s = 0 THEN {1, limit} ELSE {1},
             x \in {[Outcome |-> "0", User |-> "u1"],
                    [Outcome |-> "1", User |-> "u2"]}}

\* the handler has the reply of the catalog: it answers, or (stats, after
\* a successful lookup) calls ComputeMarketStats
AfterCatalog(l, reply) ==
    IF l.op = "list"
    THEN [l EXCEPT !.reply = reply, !.pc = "responded",
                   !.response = Answer(FetchMarkets(reply, Times[2]))]
    ELSE IF l.op = "search"
    THEN [l EXCEPT !.reply = reply, !.pc = "responded",
                   !.response = Answer(SearchMarkets(reply, DefaultSearchLimit,
                                                     Times[2]))]
    ELSE IF l.op = "get" \/ FetchMarketByID(reply).err # NoErr
    THEN [l EXCEPT !.reply = reply, !.pc = "responded",
                   !.response = Respond(FetchMarketByID(reply).market,
                                        FetchMarketByID(reply).err)]
    ELSE [l EXCEPT !.reply = reply, !.pc = "paging",
                   !.market = FetchMarketByID(reply).market]

\* GetMarketPositions has returned ret: ComputeMarketStats and the response
Finished(l, ret) ==
    [l EXCEPT !.pc = "responded",
              !.response = Respond(ComputeMarketStats(l.market, ret).stats,
                                   ComputeMarketStats(l.market, ret).err)]

\* one iteration of the loop of GetMarketPositions on the locals l, all
\* being the accumulator and q what Query returned
PagedQuery(l, all, q) ==
    IF q.err # NoErr
    THEN Finished(l, [positions |-> NilPositions,
                      err |-> "failed to query positions"])
    ELSE IF ~q.data.ok
    THEN Finished(l, [positions |-> NilPositions,
                      err |-> "failed to parse positions"])
    ELSE IF IsLastPage(q.data.page.n)
    THEN Finished(l, [positions |-> AppendPositions(all, q.data.page),
                      err |-> NoErr])
    ELSE IF PastSafetyLimit(l.skip + limit)
    THEN Finished([l EXCEPT !.skip = @ + limit],
                  [positions |-> AppendPositions(all, q.data.page),
                   err |-> NoErr])
    ELSE [l EXCEPT !.skip = @ + limit]

Paged(l, all, resp) ==
    PagedQuery([l EXCEPT !.pages = Append(@, resp)], all, Query(resp))

\* the accumulator after the iteration
Collected(all, q) ==
    IF q.err = NoErr /\ q.data.ok THEN AppendPositions(all, q.data.page) ELSE all

InitConcurrent ==
    /\ pc = "idle"
    /\ market = NoMarket
    /\ skip = 0
    /\ allPositions = NilPositions
    /\ requests = <<>>
    /\ fetchRet = NoRet
    /\ stats = NilStats
    /\ statsErr = "none"
    /\ mode = "none"
    /\ ledgerReply = NoReply
    /\ Unserved
    /\ procs = [r \in 1..NRequests |-> NewLocals]

\* request r arrives and its handler makes the call of the catalog
Receive(r) ==
    /\ procs[r].pc = "new"
    /\ \E op \in {"list", "search", "get", "stats"} :
          procs' = [procs EXCEPT ![r].op = op, ![r].pc = "called"]
    /\ UNCHANGED <<engine, facade>>

CatalogReply(r) ==
    /\ procs[r].pc = "called"
    /\ \E reply \in ConcReplies(procs[r].op) :
          procs' = [procs EXCEPT ![r] = AfterCatalog(@, reply)]
    /\ UNCHANGED <<engine, facade>>

PageReply(r) ==
    /\ procs[r].pc = "paging"
    /\ \E resp \in ConcResponses(procs[r].skip) :
          procs' = [procs EXCEPT
                      ![r] = Paged(@, procs[Owner(r)].allPositions, resp),
                      ![Owner(r)].allPositions = Collected(@, Query(resp))]
    /\ UNCHANGED <<engine, facade>>

NextConcurrent ==
    \E r \in 1..NRequests : Receive(r) \/ CatalogReply(r) \/ PageReply(r)

SpecConcurrent == InitConcurrent /\ [][NextConcurrent]_vars

(***************************************************************************)
(* Properties.  The operators below are used by the properties only.       *)
(***************************************************************************)
Done == pc = "done"

\* the call returned statistics (and no error)
Answered == pc = "done" /\ statsErr = NoErr

OutcomeIndexes == 1..Len(market.Outcomes)

\* the percentage of the k-th OutcomeStat, as [n, d]
Pct(k) == stats.OutcomeStats[k].Percentage

\* equality and order of two rationals, whatever their representation
SameValue(a, b) == a.n * b.d = b.n * a.d
AtMost(a, b)    == a.n * b.d <= b.n * a.d

\* the distinct user identifiers of a position list
DistinctUsers(positions) == {r.User : r \in positions.recs}

\* the decimal string of the Go index of the k-th outcome
DecimalOfIndex(k) ==
    CASE k = 1 -> "0" [] k = 2 -> "1" [] k = 3 -> "2" [] k = 4 -> "3"

\* the value each price string of the model stands for
ValueOfPrice(p) ==
    CASE p = <<"0", ".", "7">>      -> [n |-> 7, d |-> 10]
      [] p = <<"0", ".", "3">>      -> [n |-> 3, d |-> 10]
      [] p = <<"0", ".", "2">>      -> [n |-> 2, d |-> 10]
      [] p = <<"0">>                -> [n |-> 0, d |-> 1]
      [] p = <<"1", ".", "5">>      -> [n |-> 15, d |-> 10]
      [] p = <<"-", "0", ".", "5">> -> [n |-> -5, d |-> 10]
      [] p = <<"z">>                -> [n |-> 0, d |-> 1]

\* the price string the k-th outcome is aligned with, "0" when there is none
AlignedPrice(k) ==
    IF k <= Len(market.OutcomeTokens) THEN market.OutcomeTokens[k] ELSE <<"0">>

YesNoMarket ==
    /\ market.Outcomes = <<"Yes", "No">>
    /\ market.OutcomeTokens = <<<<"0", ".", "7">>, <<"0", ".", "3">>>>

TieMarket ==
    /\ market.Outcomes = <<"A", "B", "C">>
    /\ market.OutcomeTokens =
          <<<<"0", ".", "2">>, <<"0", ".", "2">>, <<"0", ".", "2">>>>

\* C1: ComputeMarketStats never returns an error, and whenever
\* GetMarketPositions failed (on whatever page, for whatever reason) the
\* statistics returned are those of computeStatsFromPrices for the Market.
C1_FetchFailureAbsorbed ==
    Done =>
        /\ statsErr = NoErr
        /\ fetchRet.err # NoErr =>
              /\ mode = "price"
              /\ stats = computeStatsFromPrices(market)

\* a fetch that failed on its second page, answered from the prices
C1_Witness ==
    /\ Answered
    /\ fetchRet.err # NoErr
    /\ Len(requests) = 2
    /\ YesNoMarket
    /\ stats.PopularOutcome = "Yes"

\* C2: a successful fetch with no distinct user gives the price-mode
\* result, with TotalUsers = 0 and every UserCount = 0; a ledger-derived
\* result has TotalUsers >= 1; so TotalUsers = 0 exactly for the
\* price-derived results.
C2_NoUsersIsPriceMode ==
    Done =>
        /\ statsErr = NoErr
        /\ (fetchRet.err = NoErr /\ DistinctUsers(fetchRet.positions) = {}) =>
              /\ mode = "price"
              /\ stats = computeStatsFromPrices(market)
              /\ stats.TotalUsers = 0
              /\ \A k \in OutcomeIndexes : stats.OutcomeStats[k].UserCount = 0
        /\ mode = "ledger" => stats.TotalUsers >= 1
        /\ stats.TotalUsers = 0 <=> mode = "price"

\* the ledger answered the first request with an empty page
C2_Witness ==
    /\ Answered
    /\ fetchRet.err = NoErr
    /\ fetchRet.positions.n = 0
    /\ Len(requests) = 1
    /\ mode = "price"
    /\ Len(stats.OutcomeStats) = 2

\* C3: in ledger mode the UserCount of the outcome at index i is the number
\* of distinct users among the positions whose outcome label is the decimal
\* string of i, TotalUsers is the number of distinct users of all
\* positions, and percentage = 100 * UserCount / TotalUsers.
C3_LedgerCounts ==
    (Answered /\ mode = "ledger") =>
        /\ stats.TotalUsers = Cardinality(DistinctUsers(fetchRet.positions))
        /\ Len(stats.OutcomeStats) = Len(market.Outcomes)
        /\ \A k \in OutcomeIndexes :
              /\ stats.OutcomeStats[k].UserCount =
                    Cardinality({r.User : r \in
                        {x \in fetchRet.positions.recs :
                            x.Outcome = DecimalOfIndex(k)}})
              /\ Pct(k).n * stats.TotalUsers =
                    100 * stats.OutcomeStats[k].UserCount * Pct(k).d

\* outcomes named "1" and "0": the label "1" counts for the second outcome
\* (index 1, named "0"), and one user holds positions on both outcomes
C3_Witness ==
    /\ Answered
    /\ mode = "ledger"
    /\ market.Outcomes = <<"1", "0">>
    /\ stats.TotalUsers = 2
    /\ stats.OutcomeStats[1].UserCount = 1
    /\ stats.OutcomeStats[2].UserCount = 2
    /\ Pct(1) = [n |-> 50, d |-> 1]

\* C4: in price mode the percentage at index i is 100 times the value of
\* the price at index i, a missing price counting as "0" and an unparseable
\* one as 0, and every UserCount and TotalUsers are 0; outcomes [Yes, No]
\* priced [0.7, 0.3] give [70, 30], popular outcome Yes at 70.
C4_PriceMode ==
    (Answered /\ mode = "price") =>
        /\ stats.TotalUsers = 0
        /\ Len(stats.OutcomeStats) = Len(market.Outcomes)
        /\ \A k \in OutcomeIndexes :
              /\ stats.OutcomeStats[k].UserCount = 0
              /\ stats.OutcomeStats[k].Price = AlignedPrice(k)
              /\ Pct(k).n * ValueOfPrice(AlignedPrice(k)).d =
                    100 * ValueOfPrice(AlignedPrice(k)).n * Pct(k).d
        /\ YesNoMarket =>
              /\ Pct(1) = [n |-> 70, d |-> 1]
              /\ Pct(2) = [n |-> 30, d |-> 1]
              /\ stats.PopularOutcome = "Yes"
              /\ stats.PopularPct = [n |-> 70, d |-> 1]

\* three outcomes with an unparseable price, a price and a missing price
C4_Witness ==
    /\ Answered
    /\ mode = "price"
    /\ market.Outcomes = <<"A", "B", "C">>
    /\ market.OutcomeTokens = <<<<"z">>, <<"0", ".", "7">>>>
    /\ Pct(1) = [n |-> 0, d |-> 1]
    /\ Pct(2) = [n |-> 70, d |-> 1]
    /\ Pct(3) = [n |-> 0, d |-> 1]

C6_NoPopularWhenAllZero ==
    Done =>
        /\ statsErr = NoErr
        /\ (\A k \in OutcomeIndexes : Pct(k).n = 0) =>
              /\ stats.PopularOutcome = ""
              /\ stats.PopularPct.n = 0

\* two outcomes, both at zero percent
C6_Witness ==
    /\ Answered
    /\ Len(market.Outcomes) = 2
    /\ Len(market.OutcomeTokens) = 2
    /\ \A k \in OutcomeIndexes : Pct(k).n = 0
    /\ stats.PopularOutcome = ""

\* C7: every percentage returned lies between 0 and 100, in either mode,
\* for every Market.
C7_PercentageInRange ==
    Answered =>
        \A k \in OutcomeIndexes :
            /\ AtMost(FloatZero, Pct(k))
            /\ AtMost(Pct(k), FloatOfInt(100))

\* C8: GetMarketPositions stops at the first page of fewer than 1000
\* records: that request is the last one, and the positions collected so
\* far are returned without an error.
C8_StopsAtShortPage ==
    \A i \in 1..Len(requests) :
        (requests[i].reply >= 0 /\ requests[i].reply < 1000) =>
            /\ i = Len(requests)
            /\ pc \in {"fetched", "done"}
            /\ fetchRet.err = NoErr
            /\ fetchRet.positions = allPositions
            /\ fetchRet.positions.n = 1000 * (i - 1) + requests[i].reply

\* two full pages, then a page of 999
C8_Witness ==
    /\ pc = "fetched"
    /\ Len(requests) = 3
    /\ requests[3].reply = 999
    /\ fetchRet.positions.n = 2999

\* C9: no page request is issued with skip > 10,000, whatever the upstream
\* returns.
C9_SkipNeverAbove10000 ==
    /\ \A i \in 1..Len(requests) : requests[i].skip <= 10000
    /\ pc = "paging" => skip <= 10000

\* the upstream returned ten full pages and the request with skip = 10000
\* was issued
C9_Witness ==
    /\ Len(requests) = 11
    /\ requests[11].skip = 10000
    /\ requests[11].reply = 1000

\* C10: GetMarketPositions never returns more than 10,000 positions.
C10_AtMost10000Positions ==
    (pc \in {"fetched", "done"} /\ fetchRet.err = NoErr) =>
        fetchRet.positions.n <= 10000

\* the reply is one that GetMarketPositions treats as a failed page: no
\* HTTP exchange, an envelope that is no JSON, an envelope with errors, or
\* data that does not parse as positions
FailedReply(resp) ==
    \/ resp.kind \in {"transport", "malformed"}
    \/ resp.kind = "envelope" /\ (resp.errors > 0 \/ ~resp.dataOK)

\* C11: a failure on any page of GetMarketPositions (transport, envelope
\* parse, GraphQL error, positions parse) aborts the fetch: the failed page
\* is the last request (it is not requested again, and no later page is
\* requested), and the call returns an error and no positions, whatever
\* the earlier pages held.
C11_FailureAbortsFetch ==
    /\ \A i \in 1..Len(requests) :
          requests[i].reply < 0 =>
              /\ i = Len(requests)
              /\ pc \in {"fetched", "done"}
              /\ fetchRet.err # NoErr
              /\ fetchRet.positions = NilPositions
    /\ \A i \in 1..Len(requests) : requests[i].skip = limit * (i - 1)
    /\ (requests # <<>> /\ FailedReply(ledgerReply)) =>
          requests[Len(requests)].reply < 0

\* two full pages were collected, the third reply does not parse as
\* positions: nothing is returned
C11_Witness ==
    /\ pc = "fetched"
    /\ Len(requests) = 3
    /\ ledgerReply.kind = "envelope" /\ ledgerReply.errors = 0
    /\ ~ledgerReply.dataOK
    /\ allPositions.n = 2000
    /\ fetchRet.err # NoErr
    /\ fetchRet.positions.n = 0

\* C12: a ledger response whose envelope carries errors is a failed call
\* even when it carries data too: the page request fails, none of the
\* positions of that response are appended or returned, and none is
\* counted in the statistics.
C12_ErrorsBeatData ==
    (requests # <<>> /\ ledgerReply.kind = "envelope" /\ ledgerReply.errors > 0) =>
        /\ requests[Len(requests)].reply = -1
        /\ allPositions.n = limit * (Len(requests) - 1)
        /\ fetchRet = [positions |-> NilPositions,
                       err |-> "failed to query positions"]
        /\ Answered =>
              /\ stats.TotalUsers = 0
              /\ \A k \in OutcomeIndexes : stats.OutcomeStats[k].UserCount = 0

\* the first reply has errors and a full page of positions; the request
\* is answered from the prices
C12_Witness ==
    /\ Answered
    /\ Len(requests) = 1
    /\ ledgerReply.errors > 0
    /\ ledgerReply.dataOK
    /\ ledgerReply.n = limit
    /\ stats.TotalUsers = 0

\* a handler has written its response
Responded(op) == pc = "responded" /\ request.op = op

\* the catalog answered 200 with a body that decodes
CatalogOK == catalog.kind = "ok"

\* gm.Active && !gm.Closed of a raw record
OpenFlag(gm) == gm.Active /\ ~gm.Closed

\* two Markets agree on every field but one
SameBut(m, n, field) ==
    \A f \in (DOMAIN m) \ {field} : m[f] = n[f]

\* the end-date strings of the model that are in none of the three formats
NoFormat == {EndDateStrings[i] : i \in 8..12}

\* whole seconds from the instant end to the instant t
SecondsSince(end, t) == (t.day - end.day) * 86400 + (t.sec - end.sec)

\* the Market has an end timestamp, and it is more than 24 hours before t
Dropped(m, t) == m.EndDate # ZeroTime /\ SecondsSince(m.EndDate, t) > 86400

KeptMarket(m) == ~Dropped(m, now)

Normalized(gms) == [i \in 1..Len(gms) |-> convertGammaMarket(gms[i])]

\* the raw records of a search result, event after event
RECURSIVE Flatten(_)
Flatten(events) ==
    IF events = <<>> THEN <<>>
    ELSE Head(events).Markets \o Flatten(Tail(events))

FirstN(ms, n) == IF Len(ms) <= n THEN ms ELSE SubSeq(ms, 1, n)

\* the number each parameter string of the model stands for, if any
ParamValue(s) ==
    CASE s = <<>>                   -> [num |-> FALSE, v |-> 0]
      [] s = <<"0">>                -> [num |-> TRUE,  v |-> 0]
      [] s = <<"1">>                -> [num |-> TRUE,  v |-> 1]
      [] s = <<"5", "0">>           -> [num |-> TRUE,  v |-> 50]
      [] s = <<"1", "0", "0">>      -> [num |-> TRUE,  v |-> 100]
      [] s = <<"1", "0", "1">>      -> [num |-> TRUE,  v |-> 101]
      [] s = <<"-", "5">>           -> [num |-> TRUE,  v |-> -5]
      [] s = <<"+", "7">>           -> [num |-> TRUE,  v |-> 7]
      [] s = <<"a", "b", "c">>      -> [num |-> FALSE, v |-> 0]
      [] s = <<"7", "x">>           -> [num |-> FALSE, v |-> 0]

\* C13: a stats request is answered with a failure exactly when
\* FetchMarketByID failed; when the lookup succeeded the response is a
\* success that carries the MarketStats of the Market, whatever the ledger
\* did (failed, or returned no position).
C13_StatsFailOnlyOnLookup ==
    request.op = "stats" =>
        /\ pc = "responded" =>
              /\ response.Success <=> CatalogOK
              /\ response.Success =>
                    /\ response.Status = 200
                    /\ response.Data = stats
                    /\ stats.MarketID = catalog.body.ID
                    /\ Len(stats.OutcomeStats) = Len(market.Outcomes)
              /\ ~response.Success =>
                    /\ response.Status = 500
                    /\ requests = <<>>
        /\ pc # "responded" => CatalogOK /\ response = NoResponse

\* the lookup succeeded, the ledger could not be reached on the second
\* page, and the response is a success with statistics
C13_Witness ==
    /\ Responded("stats")
    /\ CatalogOK
    /\ Len(requests) = 2
    /\ ledgerReply.kind = "transport"
    /\ response.Success
    /\ response.Data.TotalUsers = 0
    /\ response.Data.PopularOutcome = "Yes"

\* C14: the Active flag of a normalized Market is (upstream active and not
\* upstream closed), for every raw record; a record that is both active
\* and closed gives Active = FALSE.
C14_ActiveIsOpen ==
    /\ (Responded("get") /\ CatalogOK) =>
          /\ response.Data.Active = OpenFlag(catalog.body)
          /\ (catalog.body.Active /\ catalog.body.Closed) => ~response.Data.Active
    /\ (request.op = "stats" /\ CatalogOK) =>
          market.Active = OpenFlag(catalog.body)
    /\ (Responded("list") /\ CatalogOK /\ Len(response.Data) = Len(catalog.body)) =>
          \A i \in 1..Len(catalog.body) :
              response.Data[i].Active = OpenFlag(catalog.body[i])

\* a record flagged active and closed
C14_Witness ==
    /\ Responded("get")
    /\ CatalogOK
    /\ catalog.body.Active
    /\ catalog.body.Closed
    /\ response.Success
    /\ ~response.Data.Active

\* C15: convertGammaMarket does not fail; when the outcomes text (or the
\* prices text) is no JSON array of strings, the outcomes (the prices) of
\* the Market are empty and every other field is what it is for the same
\* record with a well-formed text in that field; a well-formed text gives
\* its strings.
C15_BadArrayDegradesField ==
    (Responded("get") /\ CatalogOK) =>
        /\ response.Success
        /\ catalog.body.Outcomes \in BadTexts("Yes") =>
              /\ response.Data.Outcomes = <<>>
              /\ SameBut(response.Data,
                         convertGammaMarket([catalog.body EXCEPT
                             !.Outcomes = JSONArray(<<"Yes", "No">>)]),
                         "Outcomes")
        /\ catalog.body.OutcomePrices \in BadTexts(<<"0", ".", "7">>) =>
              /\ response.Data.OutcomeTokens = <<>>
              /\ SameBut(response.Data,
                         convertGammaMarket([catalog.body EXCEPT
                             !.OutcomePrices = JSONArray(<<<<"0", ".", "3">>>>)]),
                         "OutcomeTokens")
        /\ \A o \in OutcomeLists :
              catalog.body.Outcomes = JSONArray(o) => response.Data.Outcomes = o
        /\ \A p \in FewPriceLists :
              catalog.body.OutcomePrices = JSONArray(p) =>
                  response.Data.OutcomeTokens = p
        /\ response.Data.ID = catalog.body.ID
        /\ response.Data.ConditionID = catalog.body.ConditionID
        /\ response.Data.Question = catalog.body.Question
        /\ response.Data.Description = catalog.body.Description
        /\ response.Data.Volume = catalog.body.Volume
        /\ response.Data.Liquidity = catalog.body.Liquidity

\* the outcomes text holds a number, the prices text is well-formed
C15_Witness ==
    /\ Responded("get")
    /\ CatalogOK
    /\ catalog.body.Outcomes =
          <<Punct("["), Str("Yes"), Punct(","), Punct("num"), Punct("]")>>
    /\ response.Success
    /\ response.Data.Outcomes = <<>>
    /\ response.Data.OutcomeTokens = <<<<"0", ".", "7">>, <<"0", ".", "3">>>>
    /\ response.Data.EndDate = Date(2024, 3, 10, 10, 0, 0)

\* C16: an end-date string in none of the three formats gives a Market
\* without end timestamp, and the list and search paths never drop such a
\* Market for its end date, at any current time.
C16_UnreadableEndDateKept ==
    /\ (Responded("get") /\ CatalogOK /\ catalog.body.EndDateISO \in NoFormat) =>
          response.Data.EndDate = ZeroTime
    /\ (Responded("list") /\ CatalogOK) =>
          /\ \A i \in 1..Len(catalog.body) :
                catalog.body[i].EndDateISO \in NoFormat =>
                    /\ convertGammaMarket(catalog.body[i]).EndDate = ZeroTime
                    /\ \E j \in 1..Len(response.Data) :
                          response.Data[j] = convertGammaMarket(catalog.body[i])
          /\ (\A i \in 1..Len(catalog.body) :
                catalog.body[i].EndDateISO \in NoFormat) =>
                    Len(response.Data) = Len(catalog.body)
    /\ (Responded("search") /\ CatalogOK /\ Len(response.Data) < call.limit) =>
          \A i \in 1..Len(Flatten(catalog.body)) :
              ( /\ Flatten(catalog.body)[i].EndDateISO \in NoFormat
                /\ OpenFlag(Flatten(catalog.body)[i]) ) =>
                  \E j \in 1..Len(response.Data) :
                      response.Data[j] = convertGammaMarket(Flatten(catalog.body)[i])

\* years later, a list of a long expired record and one with an unreadable
\* end date: the second is the only one listed
C16_Witness ==
    /\ Responded("list")
    /\ CatalogOK
    /\ now = Date(2031, 1, 1, 0, 0, 0)
    /\ Len(catalog.body) = 2
    /\ catalog.body[1].EndDateISO = EndDateStrings[1]
    /\ catalog.body[2].EndDateISO = EndDateStrings[10]
    /\ Len(response.Data) = 1
    /\ response.Data[1].EndDate = ZeroTime

C18_LookupDoesNotFilter ==
    /\ (Responded("get") /\ CatalogOK) =>
          /\ response.Success
          /\ response.Data = convertGammaMarket(catalog.body)
          /\ response.Data.ID = catalog.body.ID
    /\ (request.op = "stats" /\ CatalogOK) =>
          /\ market = convertGammaMarket(catalog.body)
          /\ pc = "responded" =>
                response.Success /\ response.Data.MarketID = catalog.body.ID

\* a closed record that ended years ago is returned
C18_Witness ==
    /\ Responded("get")
    /\ CatalogOK
    /\ catalog.body.Closed
    /\ response.Success
    /\ response.Data.EndDate = Date(2024, 3, 10, 0, 0, 0)
    /\ now = Date(2031, 1, 1, 0, 0, 0)
    /\ Dropped(response.Data, now)

\* C19: handleGetMarkets calls FetchMarkets with a limit in 1..100 and an
\* offset >= 0: a limit of 0, below 0, above 100 or without a number is
\* replaced by 50, an offset below 0 or without a number by 0, and values
\* in range are passed as they are.
C19_ListParameters ==
    Responded("list") =>
        /\ call.fn = "FetchMarkets"
        /\ call.limit \in 1..100
        /\ call.offset >= 0
        /\ call.limit =
              IF ParamValue(request.limit).num
                 /\ ParamValue(request.limit).v \in 1..100
              THEN ParamValue(request.limit).v ELSE 50
        /\ call.offset =
              IF ParamValue(request.offset).num
                 /\ ParamValue(request.offset).v >= 0
              THEN ParamValue(request.offset).v ELSE 0

\* limit=101 and offset=-5 are replaced by the defaults
C19_Witness ==
    /\ Responded("list")
    /\ request.limit = <<"1", "0", "1">>
    /\ request.offset = <<"-", "5">>
    /\ call.limit = 50
    /\ call.offset = 0

\* the locals of a request that ran alone from the state s, with the
\* accumulator all, through the ledger replies pages[i..]
RECURSIVE Replay(_, _, _, _)
Replay(s, all, pages, i) ==
    IF s.pc # "paging" \/ i > Len(pages) THEN s
    ELSE Replay(Paged(s, all, pages[i]), Collected(all, Query(pages[i])),
                pages, i + 1)

\* the locals of a request with the operation, the catalog reply and the
\* ledger replies of l, run alone
Alone(l) ==
    Replay(AfterCatalog([NewLocals EXCEPT !.op = l.op], l.reply),
           NilPositions, l.pages, 1)

\* the users of the positions in the ledger replies of a request
RECURSIVE UsersOf(_)
UsersOf(pages) ==
    IF pages = <<>> THEN {}
    ELSE {x.User : x \in Head(pages).page.recs} \cup UsersOf(Tail(pages))

\* C20: requests share no mutable state: however the steps of the
\* concurrent requests interleave, the response of each request is the
\* one it gives when it runs alone with the same operation and the same
\* upstream replies; the statistics count the users of its own ledger
\* replies and no others.
C20_RequestsDoNotInterfere ==
    \A r \in 1..NRequests :
        procs[r].pc = "responded" =>
            /\ procs[r].response = Alone(procs[r]).response
            /\ Alone(procs[r]).pc = "responded"
            /\ (procs[r].op = "stats" /\ procs[r].response.Success) =>
                  procs[r].response.Data.TotalUsers =
                      IF \E i \in 1..Len(procs[r].pages) :
                            procs[r].pages[i].kind # "envelope"
                      THEN 0
                      ELSE Cardinality(UsersOf(procs[r].pages))

\* two stats requests whose page requests alternate: the first collects
\* two pages with two users, the second one page with one user
C20_Witness ==
    /\ procs[1].pc = "responded" /\ procs[2].pc = "responded"
    /\ procs[1].op = "stats" /\ procs[2].op = "stats"
    /\ Len(procs[1].pages) = 2 /\ Len(procs[2].pages) = 1
    /\ procs[1].response.Success /\ procs[2].response.Success
    /\ procs[1].response.Data.TotalUsers = 2
    /\ procs[2].response.Data.TotalUsers = 1


\* C21: OutcomeStats has one entry per outcome of the Market, in the
\* Market's outcome order whatever the percentages: the entry at position
\* i has OutcomeIndex i and the name of the Market's i-th outcome, and
\* MarketID and Question are those of the Market.
C21_OutcomeOrderKept ==
    Answered =>
        /\ stats.MarketID = market.ID
        /\ stats.Question = market.Question
        /\ Len(stats.OutcomeStats) = Len(market.Outcomes)
        /\ \A k \in OutcomeIndexes :
              /\ stats.OutcomeStats[k].OutcomeIndex = k - 1
              /\ stats.OutcomeStats[k].Outcome = market.Outcomes[k]

\* three outcomes in ledger mode, the second with more users than the first
\* and the third with none
C21_Witness ==
    /\ Answered
    /\ mode = "ledger"
    /\ market.ID = "m2"
    /\ market.Outcomes = <<"A", "B", "C">>
    /\ stats.OutcomeStats[1].UserCount = 1
    /\ stats.OutcomeStats[2].UserCount = 2
    /\ stats.OutcomeStats[3].UserCount = 0
    /\ stats.PopularOutcome = "B"

\* the fetch returned at least one position, and the outcome label of
\* every position is the decimal string of no index of the Market's
\* outcomes
NoLabelIsAnIndex ==
    /\ fetchRet.err = NoErr
    /\ fetchRet.positions.recs # {}
    /\ \A r \in fetchRet.positions.recs :
          r.Outcome \notin {DecimalOfIndex(k) : k \in OutcomeIndexes}

\* C22 as stated: when the ledger returns positions whose labels are names
\* that equal no stringified outcome index, ComputeMarketStats falls
\* through to price mode: the result is the price-mode result, with
\* TotalUsers = 0.
C22_FallsThroughToPrice ==
    (Answered /\ NoLabelIsAnIndex) =>
        /\ mode = "price"
        /\ stats = computeStatsFromPrices(market)
        /\ stats.TotalUsers = 0

\* C22 as amended: with such positions every outcome gets zero matches and
\* the result is the ledger-mode result: TotalUsers is the number of
\* distinct users (at least 1), every UserCount and percentage is 0,
\* PopularOutcome is empty and PopularPct is 0; it is not the price-mode
\* result.
C22_ZeroMatchesStayLedger ==
    (Answered /\ NoLabelIsAnIndex) =>
        /\ mode = "ledger"
        /\ stats.TotalUsers = Cardinality(DistinctUsers(fetchRet.positions))
        /\ stats.TotalUsers >= 1
        /\ \A k \in OutcomeIndexes :
              /\ stats.OutcomeStats[k].UserCount = 0
              /\ Pct(k).n = 0
        /\ stats.PopularOutcome = ""
        /\ stats.PopularPct.n = 0
        /\ stats # computeStatsFromPrices(market)

\* outcomes Yes and No priced 0.7 and 0.3, and two users whose positions
\* are all labelled "Yes"
C22_Witness ==
    /\ Answered
    /\ YesNoMarket
    /\ fetchRet.err = NoErr
    /\ fetchRet.positions.recs =
          {[Outcome |-> "Yes", User |-> "u1"], [Outcome |-> "Yes", User |-> "u2"]}
    /\ stats.TotalUsers = 2
    /\ stats.PopularOutcome = ""
    /\ computeStatsFromPrices(market).PopularOutcome = "Yes"


\* C23: when every page request returns, GetMarketPositions terminates: a
\* call that is paging returns; it issues at most 11 page requests, the
\* i-th with skip = 1000 * (i - 1), so the skips are 0, 1000, 2000, ...,
\* strictly increasing by 1000 and each requested at most once.
C23_FetchTerminates ==
    /\ [](/\ Len(requests) <= 11
          /\ \A i \in 1..Len(requests) : requests[i].skip = 1000 * (i - 1)
          /\ pc = "paging" => skip = 1000 * Len(requests))
    /\ (pc = "paging" ~> pc = "fetched")

\* ten full pages, and the eleventh request failed and ended the call
C23_Witness ==
    /\ pc = "fetched"
    /\ Len(requests) = 11
    /\ requests[11].skip = 10000
    /\ requests[11].reply < 0
    /\ fetchRet.err # NoErr


\* C24: in either mode no OutcomeStat has a percentage above PopularPct,
\* and when PopularOutcome is not empty some OutcomeStat with that outcome
\* name has exactly the percentage PopularPct.
C24_PopularPctIsMaximum ==
    Answered =>
        /\ \A k \in OutcomeIndexes : AtMost(Pct(k), stats.PopularPct)
        /\ stats.PopularOutcome # "" =>
              \E k \in OutcomeIndexes :
                  /\ stats.OutcomeStats[k].Outcome = stats.PopularOutcome
                  /\ Pct(k) = stats.PopularPct

\* price mode with a negative price, a price of 0.7 and a price of 0.3: the
\* second outcome is the popular one, at 70
C24_Witness ==
    /\ Answered
    /\ mode = "price"
    /\ market.Outcomes = <<"A", "B", "C">>
    /\ market.OutcomeTokens =
          <<<<"-", "0", ".", "5">>, <<"0", ".", "7">>, <<"0", ".", "3">>>>
    /\ stats.PopularOutcome = "B"
    /\ stats.PopularPct = [n |-> 70, d |-> 1]
    /\ Pct(1).n < 0


\* C25: every UserCount is between 0 and TotalUsers, whatever positions the
\* ledger returned: a user with positions on several outcomes, or with
\* several positions on one outcome, counts once for each of these
\* outcomes and once in the total.
C25_UserCountWithinTotal ==
    Answered =>
        /\ \A k \in OutcomeIndexes :
              /\ stats.OutcomeStats[k].UserCount >= 0
              /\ stats.OutcomeStats[k].UserCount <= stats.TotalUsers
        /\ mode = "ledger" =>
              /\ stats.TotalUsers = Cardinality(DistinctUsers(fetchRet.positions))
              /\ \A k \in OutcomeIndexes :
                    stats.OutcomeStats[k].UserCount <=
                        Cardinality({r \in fetchRet.positions.recs :
                                        r.Outcome = DecimalOfIndex(k)})

\* 2001 positions of two users: both hold the first outcome, one of them
\* the second outcome too
C25_Witness ==
    /\ Answered
    /\ mode = "ledger"
    /\ fetchRet.positions.n = 2001
    /\ fetchRet.positions.recs =
          {[Outcome |-> "0", User |-> "u1"], [Outcome |-> "0", User |-> "u2"],
           [Outcome |-> "1", User |-> "u1"]}
    /\ stats.TotalUsers = 2
    /\ stats.OutcomeStats[1].UserCount = 2
    /\ stats.OutcomeStats[2].UserCount = 1

====
